---- MODULE Spec2Model ----
(***************************************************************************)
(* Model of the media download job handler download_media of               *)
(* routes/v1/media/download.py: one job, from the creation of its          *)
(* temporary directory to the value the handler returns.  The extraction   *)
(* engine (yt-dlp), the object store (upload_file), the thumbnail          *)
(* downloader (download_file) and the file system calls that can fail are  *)
(* the environment: every outcome they can produce is a nondeterministic   *)
(* choice of the action that calls them.                                   *)
(***************************************************************************)
EXTENDS Integers, Sequences, FiniteSets, TLC

\* ------------------------------------------------------------------ bounds
MaxFiles == 2

\* ------------------------------------------------------------- file names
\* A file of the temporary directory: its name is stem "." ext, size is 0
\* for an empty file and 1 for a non-empty one.
F(stem, ext, size) == [stem |-> stem, ext |-> ext, size |-> size]

NoFile == F("", "", 0)

SameName(f, g) == f.stem = g.stem /\ f.ext = g.ext

\* The files the extraction engine may leave in the directory.
Universe ==
    { F("vid", "mp4", 1), F("vid", "mp4", 0), F("vid", "webm", 1),
      F("vid", "mp3", 1), F("vid.info", "json", 1),
      F("clip", "mp4", 1), F("vid.mp4", "part", 1) }

\* A partial download an engine call that raised may leave behind.
PartFile == F("vid.mp4", "part", 1)

DistinctNames(s) ==
    \A i, j \in 1..Len(s) : i # j => ~SameName(s[i], s[j])

\* Directory listings (os.listdir order) of at most MaxFiles files.
DirContents ==
    UNION { { s \in [1..n -> Universe] : DistinctNames(s) } : n \in 0..MaxFiles }

\* video_id in f, for the video id "vid"
HasVideoId(f, video_id) ==
    /\ video_id = "vid"
    /\ f.stem \in {"vid", "vid.info", "vid.mp4"}

\* f.endswith('.info.json') or f.endswith('.description')
IsSidecar(f) ==
    \/ f.ext = "json" /\ f.stem \in {"vid.info", "clip.info"}
    \/ f.ext = "description"

\* f.endswith('.temp.mp4') or '.part' in f
IsPartial(f) ==
    \/ f.ext = "mp4" /\ f.stem \in {"vid.temp", "clip.temp"}
    \/ f.ext = "part"

common_extensions == <<"mp4", "webm", "mkv", "avi", "mov", "flv">>

media_extensions == {"mp4", "mkv", "webm", "avi", "mov", "flv", "mp3", "m4a", "wav"}

\* os.path.exists of the path stem.ext in a directory listing
Exists(dir, stem, ext) ==
    \E i \in 1..Len(dir) : dir[i].stem = stem /\ dir[i].ext = ext

\* the file of that name in the listing
Lookup(dir, stem, ext) ==
    dir[CHOOSE i \in 1..Len(dir) : dir[i].stem = stem /\ dir[i].ext = ext]

\* os.remove: the listing without the file of that name
RemoveFile(dir, f) == SelectSeq(dir, LAMBDA g : ~SameName(f, g))

\* ------------------------------------------------------------ error texts
\* str(e) is a sequence of text fragments; a signature is a fragment.
NoSuchFile == "No such file or directory"
ConversionFailed == "Conversion failed"

\* what an error of a collaborator (engine, object store, OS) may say
ErrTexts == { <<"HTTP Error 403">>, <<NoSuchFile>>, <<ConversionFailed>> }

\* what an error of the object store or of os.remove may say
StoreErrTexts == { <<"Permission denied">>, <<NoSuchFile>> }

NoError == << >>

Contains(text, sig) == \E i \in 1..Len(text) : text[i] = sig

\* variant: the message reports the final error alone
AllFailedErrorFinalOnly(initial, final) ==
    <<"All download attempts failed. Final error: ">> \o final

\* RuntimeError raised when the last download attempt failed
AllFailedError(initial, final) ==
    <<"All download attempts failed. Initial error: ">> \o initial
        \o <<". Final error: ">> \o final

\* RuntimeError raised when the upload of the main file failed
UploadError(e) == <<"Failed to upload file: ">> \o e

\* the error message of the outer handler
ErrorMessage(e) ==
    IF Contains(e, NoSuchFile)
    THEN <<"The system could not locate the downloaded file. Error: ">> \o e
    ELSE IF Contains(e, ConversionFailed)
         THEN <<"Media conversion failed.">>
         ELSE <<"Download failed: ">> \o e
                  \o <<". Please check the URL and try again.">>

\* ------------------------------------------------------- engine metadata
NoInfo == [present |-> FALSE, id |-> "", thumbs |-> << >>]

\* the thumbnails lists the engine may report: none, one without a URL
\* followed by one with a URL, two with a URL
ThumbLists ==
    { << >>, <<[url |-> FALSE], [url |-> TRUE]>>,
      <<[url |-> TRUE], [url |-> TRUE]>> }

\* what extract_info may return: None, a dictionary without id, or a
\* dictionary with the id and one of the thumbnails lists
Infos ==
    {NoInfo, [present |-> TRUE, id |-> "", thumbs |-> << >>]}
        \cup [present : {TRUE}, id : {"vid"}, thumbs : ThumbLists]

\* the minimal dictionary built when the engine returned None
MinimalInfo == [present |-> TRUE, id |-> "unknown", thumbs |-> << >>]

\* ---------------------------------------------------------------- result
route == "/v1/media/download"

NoUrl == << >>

Url(f) == <<"https://storage/", f.stem, f.ext>>

NilPayload ==
    [type |-> "nil", media_url |-> NoUrl, has_audio |-> FALSE,
     audio_url |-> NoUrl, audio_format |-> "", has_thumbnails |-> FALSE,
     thumbnails |-> << >>, msg |-> NoError]

ErrorPayload(e) == [NilPayload EXCEPT !.type = "error", !.msg = ErrorMessage(e)]

Running == [kind |-> "running", payload |-> NilPayload, route |-> "", status |-> 0]

\* the handler ended without a return statement
ReturnedNone == [kind |-> "none", payload |-> NilPayload, route |-> "", status |-> 0]

Triple(payload, r, status) ==
    [kind |-> "triple", payload |-> payload, route |-> r, status |-> status]

\* ------------------------------------------------------ option building
\* A selector string is the sequence of its tokens; no selector is << >>.
NoSelector == << >>

\* 'format' of the default options
default_format == <<"bestvideo", "+", "bestaudio", "/", "best">>

\* the selector of the direct audio download
bestaudio_format == <<"bestaudio", "/", "best">>

\* the selector fixed for the one URL the handler names
known_working_format == <<"137", "+", "140", "/", "best">>

known_url == "https://www.youtube.com/watch?v=yPxavsb2rgk"

Urls ==
    { "https://example.com/v/abc", "https://www.youtube.com/watch?v=abc",
      "https://youtu.be/abc", known_url }

\* 'youtube.com' in media_url or 'youtu.be' in media_url
is_youtube(media_url) ==
    \/ media_url \in {"https://www.youtube.com/watch?v=abc", known_url}
    \/ media_url \in {"https://youtu.be/abc"}

\* needle in tok, for the tokens of the selectors below
TokenHas(needle, tok) ==
    CASE needle = "bestvideo" -> tok \in {"bestvideo", "bestvideo[height>=720]"}
      [] needle = "best" ->
             tok \in {"best", "bestvideo", "bestaudio", "bestvideo[height>=720]"}
      [] needle = "height" -> tok \in {"[height<=480]", "bestvideo[height>=720]"}
      [] needle = "res" -> tok \in {"[resolution=1280x720]"}
      [] OTHER -> FALSE

\* needle in sel
Has(needle, sel) == \E i \in 1..Len(sel) : TokenHas(needle, sel[i])

\* the values of format.quality: absent or empty, and five expressions
Qualities ==
    { << >>, <<"best">>, <<"22">>, default_format,
      <<"bestvideo", "[height<=480]", "+", "bestaudio">>,
      <<"bestvideo", "[resolution=1280x720]", "+", "bestaudio">> }

\* data.get('format', {}): given is the truth value of the dictionary
NoFormat ==
    [given |-> FALSE, quality |-> << >>, format_id |-> "", resolution |-> "",
     video_codec |-> "", audio_codec |-> ""]

FormatOptions ==
    {NoFormat} \cup
    [given : {TRUE}, quality : Qualities, format_id : {"", "22"},
     resolution : {"", "720p"}, video_codec : {"", "avc1"},
     audio_codec : {"", "mp4a"}]

\* audio.extract, audio.get('format', 'mp3') and audio.get('quality', '192')
AudioOptions ==
    { [extract |-> FALSE, format |-> "mp3", quality |-> "192"],
      [extract |-> TRUE, format |-> "mp3", quality |-> "192"],
      [extract |-> TRUE, format |-> "m4a", quality |-> "320"] }

\* data.get('thumbnails', {}): given is the truth value of the dictionary
NoThumbnails ==
    [given |-> FALSE, download |-> FALSE, download_all |-> FALSE, formats |-> << >>]

ThumbnailOptions ==
    { NoThumbnails,
      [given |-> TRUE, download |-> TRUE, download_all |-> FALSE, formats |-> << >>],
      [given |-> TRUE, download |-> TRUE, download_all |-> TRUE,
       formats |-> <<"jpg">>] }

\* data.get('subtitles', {})
NoSubtitles ==
    [given |-> FALSE, download |-> FALSE, languages |-> << >>, formats |-> << >>]

SubtitleOptions ==
    { NoSubtitles,
      [given |-> TRUE, download |-> FALSE, languages |-> << >>, formats |-> << >>],
      [given |-> TRUE, download |-> TRUE, languages |-> <<"en">>,
       formats |-> <<"srt">>] }

RequestData ==
    [media_url : Urls, format : FormatOptions, audio : AudioOptions,
     thumbnails : ThumbnailOptions, subtitles : SubtitleOptions]

NoData ==
    [media_url |-> "", format |-> NoFormat,
     audio |-> [extract |-> FALSE, format |-> "mp3", quality |-> "192"],
     thumbnails |-> NoThumbnails, subtitles |-> NoSubtitles]

\* a subtitle key that is not set reads as False, or as no list
NoOptions ==
    [format |-> NoSelector, postprocessors |-> << >>, keepvideo |-> FALSE,
     writesubtitles |-> FALSE, writeallsubtitles |-> FALSE,
     subtitleslangs |-> << >>, subtitlesformat |-> << >>]

\* user_format.replace('bestvideo', 'bestvideo[height>=720]')
enhanced_format(user_format) ==
    [i \in 1..Len(user_format) |->
        IF user_format[i] = "bestvideo" THEN "bestvideo[height>=720]"
        ELSE user_format[i]]

\* the structured fields that are set, in the order the handler appends them
format_str(format_options) ==
    SelectSeq(<<format_options.format_id, format_options.resolution,
                format_options.video_codec, format_options.audio_codec>>,
              LAMBDA x : x # "")

\* '+'.join(parts)
JoinPlus(parts) ==
    [i \in 1..(2 * Len(parts) - 1) |->
        IF i % 2 = 1 THEN parts[(i + 1) \div 2] ELSE "+"]

\* the format options of the request applied to the selector cur
FormatFromOptions(media_url, format_options, cur) ==
    IF ~format_options.given THEN cur
    ELSE IF format_options.quality # << >>
    THEN LET user_format == format_options.quality
         IN  IF /\ is_youtube(media_url)
                /\ Has("bestvideo", user_format)
                /\ ~Has("height", user_format)
                /\ ~Has("res", user_format)
             THEN enhanced_format(user_format)
             ELSE user_format
    ELSE IF format_str(format_options) # << >>
    THEN JoinPlus(format_str(format_options))
    ELSE cur

ExtractAudio(audio_options) ==
    [key |-> "FFmpegExtractAudio", preferredcodec |-> audio_options.format,
     preferredquality |-> audio_options.quality]

Merger == [key |-> "FFmpegMerger", preferredcodec |-> "", preferredquality |-> ""]

\* the options built before the metadata pre-fetch
BuiltOptions(d) ==
    LET extract == d.audio.extract
        direct == is_youtube(d.media_url) /\ extract /\ ~d.format.given
        f1 == IF direct THEN bestaudio_format ELSE default_format
        p1 == IF direct THEN <<ExtractAudio(d.audio)>> ELSE << >>
        f2 == FormatFromOptions(d.media_url, d.format, f1)
        f3 == IF extract /\ is_youtube(d.media_url) /\ ~d.format.given
              THEN bestaudio_format ELSE f2
        p2 == IF extract THEN Append(p1, ExtractAudio(d.audio)) ELSE p1
        keepvideo == extract
        p3 == IF ~direct /\ ~(extract /\ ~keepvideo) THEN Append(p2, Merger) ELSE p2
        known == d.media_url = known_url
        f4 == IF known THEN known_working_format ELSE f3
        has_audio_processor ==
            \E i \in 1..Len(p3) : p3[i].key = "FFmpegExtractAudio"
        p4 == IF known /\ extract /\ ~has_audio_processor
              THEN Append(p3, ExtractAudio(d.audio)) ELSE p3
        t == d.thumbnails
        u == d.subtitles
        ws1 == IF t.given THEN t.download ELSE FALSE
        wa1 == IF t.given THEN t.download_all ELSE FALSE
        sl1 == IF t.given /\ t.formats # << >> THEN t.formats ELSE << >>
        ws2 == IF u.given THEN u.download ELSE ws1
        sl2 == IF u.given /\ u.languages # << >> THEN u.languages ELSE sl1
        sf2 == IF u.given /\ u.formats # << >> THEN u.formats ELSE << >>
    IN  [format |-> f4, postprocessors |-> p4, keepvideo |-> keepvideo,
         writesubtitles |-> ws2, writeallsubtitles |-> wa1,
         subtitleslangs |-> sl2, subtitlesformat |-> sf2]

\* an entry of info_dict['formats']: video is vcodec != 'none', audio is
\* acodec != 'none', a height or tbr of None is 0
Fmt(id, video, audio, height, tbr) ==
    [format_id |-> id, video |-> video, audio |-> audio, height |-> height,
     tbr |-> tbr]

\* what the metadata pre-fetch may report
InfoDicts ==
    { [has_formats |-> FALSE, formats |-> << >>],
      [has_formats |-> TRUE, formats |-> << >>],
      [has_formats |-> TRUE, formats |-> <<Fmt("140", FALSE, TRUE, 0, 128)>>],
      [has_formats |-> TRUE, formats |-> <<Fmt("18", TRUE, TRUE, 360, 500)>>],
      [has_formats |-> TRUE,
       formats |-> <<Fmt("137", TRUE, FALSE, 1080, 4000),
                     Fmt("140", FALSE, TRUE, 0, 128)>>],
      [has_formats |-> TRUE,
       formats |-> <<Fmt("248", TRUE, FALSE, 1080, 2600),
                     Fmt("137", TRUE, FALSE, 1080, 4000),
                     Fmt("140", FALSE, TRUE, 0, 128),
                     Fmt("251", FALSE, TRUE, 0, 160)>>] }

\* the id of the first video format of the greatest height, "" for None
best_video_format(formats) ==
    LET best[i \in 0..Len(formats)] ==
            IF i = 0 THEN [height |-> 0, id |-> ""]
            ELSE IF formats[i].video /\ formats[i].height > best[i - 1].height
                 THEN [height |-> formats[i].height, id |-> formats[i].format_id]
                 ELSE best[i - 1]
    IN  best[Len(formats)].id

\* the id of the first audio format of the greatest bitrate, "" for None
best_audio_format(formats) ==
    LET best[i \in 0..Len(formats)] ==
            IF i = 0 THEN [tbr |-> 0, id |-> ""]
            ELSE IF formats[i].audio /\ formats[i].tbr > best[i - 1].tbr
                 THEN [tbr |-> formats[i].tbr, id |-> formats[i].format_id]
                 ELSE best[i - 1]
    IN  best[Len(formats)].id

\* f"{best_video_format}+{best_audio_format}/best"
specific_format(formats) ==
    <<best_video_format(formats), "+", best_audio_format(formats), "/", "best">>

\* the selector after the pre-fetch reported info_dict
FormatAfterPrefetch(d, info_dict, cur) ==
    IF /\ info_dict.has_formats
       /\ best_video_format(info_dict.formats) # ""
       /\ best_audio_format(info_dict.formats) # ""
       /\ d.format.given
       /\ Has("best", d.format.quality)
    THEN specific_format(info_dict.formats)
    ELSE cur

\* ----------------------------------------------------------------- state
VARIABLES
    pc,             \* position of the handler
    req,            \* the request: audio and thumbnail options
    temp_dir,       \* "absent", "exists" or "removed"
    files,          \* listing of the temporary directory
    info,           \* metadata dictionary of the job
    download_error, \* the error caught by the handler of the first two tiers
    final_error,    \* the error caught by the handler of the last attempt
    filename,       \* the main file selected for upload
    cloud_url,      \* URL of the uploaded main file
    audio_url,      \* URL of the uploaded audio file
    response,       \* the response under construction
    thumb_i,        \* index of the next thumbnail of the loop
    result,         \* what the handler returned
    calls,          \* the calls made to the collaborators, in order
    data,           \* the request fields read by option building
    ydl_opts,       \* the options under construction
    step,           \* position of option building
    handed,         \* the selector handed to the engine by the first attempt
    jpc,            \* concurrent jobs: the position of each job
    work_dir,       \* concurrent jobs: the temporary directory of each job
    dirs,           \* the directories that exist on the file system
    disk,           \* the paths <<directory, name>> that exist on the file system
    touched         \* the directories whose files the steps of the jobs accessed

vars == <<pc, req, temp_dir, files, info, download_error, final_error,
          filename, cloud_url, audio_url, response, thumb_i, result, calls,
          data, ydl_opts, step, handed, jpc, work_dir, dirs, disk, touched>>

\* the variables of option building
optvars == <<data, ydl_opts, step, handed>>

\* the variables of the jobs that run side by side
fsvars == <<jpc, work_dir, dirs, disk, touched>>

\* the jobs that run side by side
Jobs == {1, 2}

\* the names tempfile may give a directory
DirNames == {"tmp_a", "tmp_b", "tmp_c"}

\* the names a step of a job gives a file of its directory: the output
\* template of the three attempts, the sidecar, a downloaded thumbnail
FileNames == {"vid.mp4", "vid.info.json", "thumb1.jpg"}

\* no job has started
NoJobs ==
    /\ jpc = [j \in Jobs |-> "off"]
    /\ work_dir = [j \in Jobs |-> "none"]
    /\ dirs = {}
    /\ disk = {}
    /\ touched = {}

\* audio.format defaults to "mp3"
Requests ==
    [audio_extract : {TRUE}, audio_format : {"mp3", "m4a"},
     thumb_download : BOOLEAN]
    \cup [audio_extract : {FALSE}, audio_format : {"mp3"},
          thumb_download : BOOLEAN]

\* a call to a collaborator: the file it is about, whether it returned, and
\* for a download attempt the directory listing read after it
Call(op, f, ok) == [op |-> op, file |-> f, ok |-> ok, listing |-> << >>]

Attempt(op, ok, d) == [op |-> op, file |-> NoFile, ok |-> ok, listing |-> d]

Init ==
    /\ pc = "start"
    /\ req \in Requests
    /\ temp_dir = "absent"
    /\ files = << >>
    /\ info = NoInfo
    /\ download_error = NoError
    /\ final_error = NoError
    /\ filename = NoFile
    /\ cloud_url = NoUrl
    /\ audio_url = NoUrl
    /\ response = NilPayload
    /\ thumb_i = 1
    /\ result = Running
    /\ calls = << >>
    /\ data = NoData
    /\ ydl_opts = NoOptions
    /\ step = "off"
    /\ handed = NoSelector
    /\ NoJobs

\* leaving the with block: TemporaryDirectory removes the directory and
\* everything in it, if it was created
Cleanup ==
    /\ temp_dir' = IF temp_dir = "exists" THEN "removed" ELSE temp_dir
    /\ files' = << >>

\* variant: the exception is handled inside the with block, the directory
\* is still there when the error triple is returned
RaiseNoCleanup(e) ==
    /\ UNCHANGED <<temp_dir, files>>
    /\ pc' = "done"
    /\ result' = Triple(ErrorPayload(e), route, 500)

\* variant: the error message is returned with the status of a success
RaiseStatus200(e) ==
    /\ Cleanup
    /\ pc' = "done"
    /\ result' = Triple(ErrorPayload(e), route, 200)

\* an exception e reaches the outer handler: the with block is left, then
\* the handler returns the error triple
Raise(e) ==
    /\ Cleanup
    /\ pc' = "done"
    /\ result' = Triple(ErrorPayload(e), route, 500)

\* the last attempt failed with final_error: RuntimeError carrying the
\* initial and the final error
RaiseFinal(e) ==
    /\ final_error' = e
    /\ Raise(AllFailedError(download_error, e))

\* the handler ends without reaching a return statement: the with block is
\* left and the function returns None
FallOffEnd ==
    /\ Cleanup
    /\ pc' = "done"
    /\ result' = ReturnedNone

\* -------------------------------------------------- working directory
\* tempfile.TemporaryDirectory() creates the directory
CreateWorkDir ==
    /\ pc = "start"
    /\ temp_dir' = "exists"
    /\ pc' = "prefetch"
    /\ UNCHANGED <<optvars, fsvars, req, final_error, files, info, download_error, filename, cloud_url,
                   audio_url, response, thumb_i, result, calls>>

\* tempfile.TemporaryDirectory() raises: nothing was created
CreateWorkDirFails ==
    /\ pc = "start"
    /\ \E e \in ErrTexts : Raise(e)
    /\ UNCHANGED <<optvars, fsvars, req, final_error, info, download_error, filename, cloud_url, audio_url,
                   response, thumb_i, calls>>

\* ------------------------------------------------- metadata pre-fetch
\* extract_info(media_url, download=False) before the first attempt returns
Prefetch ==
    /\ pc = "prefetch"
    /\ pc' = "tier1"
    /\ calls' = Append(calls, Call("prefetch", NoFile, TRUE))
    /\ UNCHANGED <<optvars, fsvars, req, final_error, temp_dir, files, info, download_error, filename,
                   cloud_url, audio_url, response, thumb_i, result>>

\* the pre-fetch raises: it is outside the inner try block, the exception
\* reaches the outer handler
PrefetchRaises ==
    /\ pc = "prefetch"
    /\ \E e \in ErrTexts : Raise(e)
    /\ calls' = Append(calls, Call("prefetch", NoFile, FALSE))
    /\ UNCHANGED <<optvars, fsvars, req, final_error, info, download_error, filename, cloud_url, audio_url,
                   response, thumb_i>>

\* ------------------------------------------------------------- tier 1
\* extract_info(media_url, download=True) returns a dictionary; an empty
\* directory sends the handler to the fallback options, a non-empty one
\* ends the try block, and nothing follows the try statement
Tier1Returns ==
    /\ pc = "tier1"
    /\ \E i \in Infos \ {NoInfo}, d \in DirContents :
        /\ info' = i
        /\ calls' = Append(calls, Attempt("tier1", TRUE, d))
        /\ IF d = << >>
           THEN /\ pc' = "tier2"
                /\ files' = d
                /\ UNCHANGED <<temp_dir, result>>
           ELSE FallOffEnd
    /\ UNCHANGED <<optvars, fsvars, req, final_error, download_error, filename, cloud_url, audio_url,
                   response, thumb_i>>

\* extract_info raises, or returns None and the handler raises ValueError:
\* the exception handler of the try block starts the direct download
Tier1Raises ==
    /\ pc = "tier1"
    /\ \E e \in ErrTexts \cup {<<"No information returned from yt-dlp">>},
          d \in {files, <<PartFile>>} :
        /\ download_error' = e
        /\ files' = d
    /\ pc' = "tier3"
    /\ calls' = Append(calls, Call("tier1", NoFile, FALSE))
    /\ UNCHANGED <<optvars, fsvars, req, final_error, temp_dir, info, filename, cloud_url, audio_url,
                   response, thumb_i, result>>

\* ------------------------------------------------------------- tier 2
\* the fallback extract_info returns (its value is not checked)
Tier2Returns ==
    /\ pc = "tier2"
    /\ \E i \in Infos, d \in DirContents :
        /\ info' = i
        /\ calls' = Append(calls, Attempt("tier2", TRUE, d))
        /\ IF d = << >>
           THEN /\ download_error' = <<"No files downloaded after fallback attempt">>
                /\ pc' = "tier3"
                /\ files' = d
                /\ UNCHANGED <<temp_dir, result>>
           ELSE /\ FallOffEnd
                /\ UNCHANGED download_error
    /\ UNCHANGED <<optvars, fsvars, req, final_error, filename, cloud_url, audio_url, response, thumb_i>>

\* variant: after the fallback raised, the first attempt is made again
Tier2RaisesRunsTier1Again ==
    /\ pc = "tier2"
    /\ \E e \in ErrTexts, d \in {files, <<PartFile>>} :
        /\ download_error' = e
        /\ files' = d
    /\ pc' = "tier1"
    /\ calls' = Append(calls, Call("tier2", NoFile, FALSE))
    /\ UNCHANGED <<optvars, fsvars, req, final_error, temp_dir, info, filename, cloud_url, audio_url,
                   response, thumb_i, result>>

\* the fallback extract_info raises
Tier2Raises ==
    /\ pc = "tier2"
    /\ \E e \in ErrTexts, d \in {files, <<PartFile>>} :
        /\ download_error' = e
        /\ files' = d
    /\ pc' = "tier3"
    /\ calls' = Append(calls, Call("tier2", NoFile, FALSE))
    /\ UNCHANGED <<optvars, fsvars, req, final_error, temp_dir, info, filename, cloud_url, audio_url,
                   response, thumb_i, result>>

\* ------------------------------------------------------------- tier 3
\* the yt-dlp process exits with status 0
Tier3Exits0 ==
    /\ pc = "tier3"
    /\ \E d \in DirContents :
        /\ calls' = Append(calls, Attempt("tier3", TRUE, d))
        /\ IF d = << >>
           THEN RaiseFinal(<<"No files after direct download attempt">>)
           ELSE /\ pc' = "tier3info"
                /\ files' = d
                /\ UNCHANGED <<temp_dir, result, final_error>>
    /\ UNCHANGED <<optvars, fsvars, req, info, download_error, filename, cloud_url, audio_url,
                   response, thumb_i>>

\* subprocess.run raises, or the process exits with a non-zero status
Tier3Fails ==
    /\ pc = "tier3"
    /\ \E e \in ErrTexts, started \in BOOLEAN :
        RaiseFinal(IF started
                   THEN <<"Direct download command failed: ">> \o e
                   ELSE e)
    /\ calls' = Append(calls, Call("tier3", NoFile, FALSE))
    /\ UNCHANGED <<optvars, fsvars, req, info, download_error, filename, cloud_url, audio_url,
                   response, thumb_i>>

\* extract_info(media_url, download=False) after the direct download
\* returns.  No statement after it reads download_error, which is dropped
\* from the state here.
Tier3Info ==
    /\ pc = "tier3info"
    /\ \E i \in Infos : info' = i
    /\ download_error' = NoError
    /\ pc' = "discover"
    /\ calls' = Append(calls, Call("tier3info", NoFile, TRUE))
    /\ UNCHANGED <<optvars, fsvars, req, final_error, temp_dir, files, filename, cloud_url, audio_url,
                   response, thumb_i, result>>

\* that extract_info raises: the exception is caught as final_error
Tier3InfoRaises ==
    /\ pc = "tier3info"
    /\ \E e \in ErrTexts : RaiseFinal(e)
    /\ calls' = Append(calls, Call("tier3info", NoFile, FALSE))
    /\ UNCHANGED <<optvars, fsvars, req, info, download_error, filename, cloud_url, audio_url,
                   response, thumb_i>>

\* ---------------------------------------------------- artifact discovery
\* the first of a set of indices of a loop, 0 if the set is empty
FirstIndex(S) ==
    IF S = {} THEN 0 ELSE CHOOSE i \in S : \A j \in S : i <= j

\* video_id.ext for the first of the common extensions that exists with a
\* size above zero
ByIdPattern(dir, video_id) ==
    LET ok(k) == /\ Exists(dir, video_id, common_extensions[k])
                 /\ Lookup(dir, video_id, common_extensions[k]).size > 0
        k == FirstIndex({ x \in 1..Len(common_extensions) : ok(x) })
    IN  IF video_id # "" /\ k # 0
        THEN Lookup(dir, video_id, common_extensions[k])
        ELSE NoFile

\* the first listed file whose name contains the video id, metadata files
\* skipped
ByIdSubstring(dir, video_id) ==
    LET ok(i) == HasVideoId(dir[i], video_id) /\ ~IsSidecar(dir[i])
        i == FirstIndex({ x \in 1..Len(dir) : ok(x) })
    IN  IF video_id # "" /\ i # 0 THEN dir[i] ELSE NoFile

\* the first listed file with a media extension, partial files skipped
AnyMediaFile(dir) ==
    LET ok(i) == dir[i].ext \in media_extensions /\ ~IsPartial(dir[i])
        i == FirstIndex({ x \in 1..Len(dir) : ok(x) })
    IN  IF i # 0 THEN dir[i] ELSE NoFile

\* the first listed file with a size above zero
AnyNonEmptyFile(dir) ==
    LET ok(i) == dir[i].size > 0
        i == FirstIndex({ x \in 1..Len(dir) : ok(x) })
    IN  IF i # 0 THEN dir[i] ELSE NoFile

\* the main file of a listing, NoFile if none is usable
SelectMain(dir, video_id) ==
    IF ByIdPattern(dir, video_id) # NoFile THEN ByIdPattern(dir, video_id)
    ELSE IF ByIdSubstring(dir, video_id) # NoFile
         THEN ByIdSubstring(dir, video_id)
    ELSE IF AnyMediaFile(dir) # NoFile THEN AnyMediaFile(dir)
    ELSE AnyNonEmptyFile(dir)

\* variant: the size of the selected file is not checked
DiscoverNoSizeCheck ==
    /\ pc = "discover"
    /\ LET video_id == IF info.present THEN info.id ELSE ""
           f == SelectMain(files, video_id)
       IN  /\ info' = IF info.present THEN info ELSE MinimalInfo
           /\ IF files = << >>
              THEN /\ Raise(<<"No files found after successful download was reported">>)
                   /\ UNCHANGED filename
              ELSE IF f = NoFile
              THEN /\ Raise(<<"Could not identify any usable media file">>)
                   /\ UNCHANGED filename
              ELSE /\ filename' = f
                   /\ pc' = "upload"
                   /\ UNCHANGED <<temp_dir, files, result>>
    /\ UNCHANGED <<optvars, fsvars, req, final_error, download_error, cloud_url, audio_url, response,
                   thumb_i, calls>>

\* the directory is listed, the main file is selected and its size checked.
\* The recovery download of a selected file that does not exist is not
\* reachable: the file is taken from the listing of a directory that only
\* this job writes.
Discover ==
    /\ pc = "discover"
    /\ LET video_id == IF info.present THEN info.id ELSE ""
           f == SelectMain(files, video_id)
       IN  /\ info' = IF info.present THEN info ELSE MinimalInfo
           /\ IF files = << >>
              THEN /\ Raise(<<"No files found after successful download was reported">>)
                   /\ UNCHANGED filename
              ELSE IF f = NoFile
              THEN /\ Raise(<<"Could not identify any usable media file">>)
                   /\ UNCHANGED filename
              ELSE IF f.size = 0
              THEN /\ Raise(<<"File exists but has zero size">>)
                   /\ filename' = f
              ELSE /\ filename' = f
                   /\ pc' = "upload"
                   /\ UNCHANGED <<temp_dir, files, result>>
    /\ UNCHANGED <<optvars, fsvars, req, final_error, download_error, cloud_url, audio_url, response,
                   thumb_i, calls>>

\* ------------------------------------------------- upload of the main file
\* the check made before the retry: the file exists with a size above zero
ValidForRetry(dir, f) ==
    Exists(dir, f.stem, f.ext) /\ Lookup(dir, f.stem, f.ext).size > 0

\* upload_file returns and os.remove deletes the local file
UploadOk ==
    /\ pc = "upload"
    /\ cloud_url' = Url(filename)
    /\ files' = RemoveFile(files, filename)
    /\ calls' = calls \o <<Call("upload", filename, TRUE),
                           Call("remove", filename, TRUE)>>
    /\ pc' = "audio"
    /\ UNCHANGED <<optvars, fsvars, req, final_error, temp_dir, info, download_error, filename, audio_url,
                   response, thumb_i, result>>

\* upload_file returns and os.remove raises: the exception is handled as a
\* failed upload
UploadOkRemoveRaises ==
    /\ pc = "upload"
    /\ cloud_url' = Url(filename)
    /\ calls' = calls \o <<Call("upload", filename, TRUE),
                           Call("remove", filename, FALSE)>>
    /\ IF ValidForRetry(files, filename)
       THEN /\ pc' = "retry"
            /\ UNCHANGED <<temp_dir, files, result>>
       ELSE Raise(UploadError(<<"File invalid before retry">>))
    /\ UNCHANGED <<optvars, fsvars, req, final_error, info, download_error, filename, audio_url, response,
                   thumb_i>>

\* variant: a failed upload of the main file is passed over
UploadRaisesGoesOn ==
    /\ pc = "upload"
    /\ calls' = Append(calls, Call("upload", filename, FALSE))
    /\ pc' = "audio"
    /\ UNCHANGED <<optvars, fsvars, req, final_error, temp_dir, files, info, download_error,
                   filename, cloud_url, audio_url, response, thumb_i, result>>

\* upload_file raises
UploadRaises ==
    /\ pc = "upload"
    /\ calls' = Append(calls, Call("upload", filename, FALSE))
    /\ IF ValidForRetry(files, filename)
       THEN /\ pc' = "retry"
            /\ UNCHANGED <<temp_dir, files, result>>
       ELSE Raise(UploadError(<<"File invalid before retry">>))
    /\ UNCHANGED <<optvars, fsvars, req, final_error, info, download_error, filename, cloud_url, audio_url,
                   response, thumb_i>>

\* the second upload_file returns and os.remove deletes the local file
RetryOk ==
    /\ pc = "retry"
    /\ cloud_url' = Url(filename)
    /\ files' = RemoveFile(files, filename)
    /\ calls' = calls \o <<Call("upload", filename, TRUE),
                           Call("remove", filename, TRUE)>>
    /\ pc' = "audio"
    /\ UNCHANGED <<optvars, fsvars, req, final_error, temp_dir, info, download_error, filename, audio_url,
                   response, thumb_i, result>>

\* the second upload_file returns and os.remove raises: nothing handles it
\* but the handler of the upload step
RetryOkRemoveRaises ==
    /\ pc = "retry"
    /\ cloud_url' = Url(filename)
    /\ calls' = calls \o <<Call("upload", filename, TRUE),
                           Call("remove", filename, FALSE)>>
    /\ \E e \in StoreErrTexts : Raise(UploadError(e))
    /\ UNCHANGED <<optvars, fsvars, req, final_error, info, download_error, filename, audio_url, response,
                   thumb_i>>

\* variant: a failed retry is followed by another retry
RetryRaisesAgain ==
    /\ pc = "retry"
    /\ calls' = Append(calls, Call("upload", filename, FALSE))
    /\ UNCHANGED <<optvars, fsvars, pc, req, final_error, temp_dir, files, info, download_error,
                   filename, cloud_url, audio_url, response, thumb_i, result>>

\* the second upload_file raises
RetryRaises ==
    /\ pc = "retry"
    /\ calls' = Append(calls, Call("upload", filename, FALSE))
    /\ \E e \in StoreErrTexts : Raise(UploadError(e))
    /\ UNCHANGED <<optvars, fsvars, req, final_error, info, download_error, filename, cloud_url, audio_url,
                   response, thumb_i>>

\* ------------------------------------------------------------ audio file
\* variant: when no file has the requested extension, the first other audio
\* file is taken
FindAudioAnyFormat(dir, video_id, main, audio_format) ==
    IF Exists(dir, video_id, audio_format)
    THEN Lookup(dir, video_id, audio_format)
    ELSE LET ok(i) == dir[i].ext \in {"mp3", "m4a", "wav"} /\ ~SameName(dir[i], main)
             i == FirstIndex({ x \in 1..Len(dir) : ok(x) })
         IN  IF i # 0 THEN dir[i] ELSE NoFile

\* the audio file looked for after the upload of the main file: the exact
\* names first, then the first listed file with the audio extension that
\* is not the main file; NoFile if there is none
FindAudio(dir, video_id, main, audio_format) ==
    IF Exists(dir, video_id, audio_format)
    THEN Lookup(dir, video_id, audio_format)
    ELSE IF Exists(dir, main.stem, audio_format)
    THEN Lookup(dir, main.stem, audio_format)
    ELSE LET ok(i) == dir[i].ext = audio_format /\ ~SameName(dir[i], main)
             i == FirstIndex({ x \in 1..Len(dir) : ok(x) })
         IN  IF i # 0 THEN dir[i] ELSE NoFile

audio_path ==
    IF req.audio_extract
    THEN FindAudio(files, info.id, filename, req.audio_format)
    ELSE NoFile

\* no audio extraction requested, or no audio file found
AudioNone ==
    /\ pc = "audio"
    /\ audio_path = NoFile
    /\ pc' = "respond"
    /\ UNCHANGED <<optvars, fsvars, req, final_error, temp_dir, files, info, download_error, filename,
                   cloud_url, audio_url, response, thumb_i, result, calls>>

\* upload_file of the audio file returns; an os.remove that raises is logged
AudioUploadOk ==
    /\ pc = "audio"
    /\ audio_path # NoFile
    /\ audio_url' = Url(audio_path)
    /\ \E removed \in BOOLEAN :
        /\ files' = IF removed THEN RemoveFile(files, audio_path) ELSE files
        /\ calls' = calls \o <<Call("upload", audio_path, TRUE),
                               Call("remove", audio_path, removed)>>
    /\ pc' = "respond"
    /\ UNCHANGED <<optvars, fsvars, req, final_error, temp_dir, info, download_error, filename, cloud_url,
                   response, thumb_i, result>>

\* variant: the exception of the audio upload is not caught
AudioUploadRaisesFailsJob ==
    /\ pc = "audio"
    /\ audio_path # NoFile
    /\ calls' = Append(calls, Call("upload", audio_path, FALSE))
    /\ \E e \in StoreErrTexts : Raise(UploadError(e))
    /\ UNCHANGED <<optvars, fsvars, req, final_error, info, download_error, filename,
                   cloud_url, audio_url, response, thumb_i>>

\* upload_file of the audio file raises: logged, no second attempt
AudioUploadRaises ==
    /\ pc = "audio"
    /\ audio_path # NoFile
    /\ calls' = Append(calls, Call("upload", audio_path, FALSE))
    /\ pc' = "respond"
    /\ UNCHANGED <<optvars, fsvars, req, final_error, temp_dir, files, info, download_error, filename,
                   cloud_url, audio_url, response, thumb_i, result>>

\* ------------------------------------------------------------- response
\* the response record is built: the media block, the audio block if an
\* audio URL was obtained, an empty thumbnails array if thumbnails were
\* requested and the metadata reports some
Respond ==
    /\ pc = "respond"
    /\ IF cloud_url = NoUrl
       THEN /\ Raise(<<"Media upload process did not complete successfully">>)
            /\ UNCHANGED response
       ELSE /\ response' =
                [type |-> "record",
                 media_url |-> cloud_url,
                 has_audio |-> audio_url # NoUrl,
                 audio_url |-> audio_url,
                 audio_format |-> IF audio_url # NoUrl THEN req.audio_format ELSE "",
                 has_thumbnails |-> info.thumbs # << >> /\ req.thumb_download,
                 thumbnails |-> << >>,
                 msg |-> NoError]
            /\ pc' = "thumbs"
            /\ UNCHANGED <<temp_dir, files, result>>
    /\ UNCHANGED <<optvars, fsvars, req, final_error, info, download_error, filename, cloud_url, audio_url,
                   thumb_i, calls>>

\* ------------------------------------------------------------ thumbnails
ThumbNames == <<"thumb1", "thumb2">>

\* the file download_file writes for the i-th thumbnail
ThumbFile(i) == F(ThumbNames[i], "jpg", 1)

InThumbLoop ==
    /\ pc = "thumbs"
    /\ response.has_thumbnails
    /\ thumb_i <= Len(info.thumbs)

\* a thumbnail without a URL is passed over
ThumbNoUrl ==
    /\ InThumbLoop
    /\ ~info.thumbs[thumb_i].url
    /\ thumb_i' = thumb_i + 1
    /\ UNCHANGED <<optvars, fsvars, pc, req, final_error, temp_dir, files, info, download_error, filename,
                   cloud_url, audio_url, response, result, calls>>

\* variant: the exception of download_file is not caught
ThumbDownloadRaisesFailsJob ==
    /\ InThumbLoop
    /\ info.thumbs[thumb_i].url
    /\ calls' = Append(calls, Call("download_file", ThumbFile(thumb_i), FALSE))
    /\ \E e \in StoreErrTexts : Raise(e)
    /\ UNCHANGED <<optvars, fsvars, req, final_error, info, download_error, filename,
                   cloud_url, audio_url, response, thumb_i>>

\* download_file raises: the thumbnail is skipped
ThumbDownloadRaises ==
    /\ InThumbLoop
    /\ info.thumbs[thumb_i].url
    /\ calls' = Append(calls, Call("download_file", ThumbFile(thumb_i), FALSE))
    /\ thumb_i' = thumb_i + 1
    /\ UNCHANGED <<optvars, fsvars, pc, req, final_error, temp_dir, files, info, download_error, filename,
                   cloud_url, audio_url, response, result>>

\* variant: the thumbnail file is deleted although its upload raised
ThumbUploadRaisesDeletes ==
    /\ InThumbLoop
    /\ info.thumbs[thumb_i].url
    /\ calls' = calls \o <<Call("download_file", ThumbFile(thumb_i), TRUE),
                           Call("upload", ThumbFile(thumb_i), FALSE)>>
    /\ thumb_i' = thumb_i + 1
    /\ UNCHANGED <<optvars, fsvars, pc, req, final_error, temp_dir, files, info, download_error,
                   filename, cloud_url, audio_url, response, result>>

\* upload_file of the thumbnail raises: the thumbnail is skipped, its file
\* stays in the directory
ThumbUploadRaises ==
    /\ InThumbLoop
    /\ info.thumbs[thumb_i].url
    /\ files' = Append(files, ThumbFile(thumb_i))
    /\ calls' = calls \o <<Call("download_file", ThumbFile(thumb_i), TRUE),
                           Call("upload", ThumbFile(thumb_i), FALSE)>>
    /\ thumb_i' = thumb_i + 1
    /\ UNCHANGED <<optvars, fsvars, pc, req, final_error, temp_dir, info, download_error, filename,
                   cloud_url, audio_url, response, result>>

\* os.remove of the uploaded thumbnail raises: no record is appended
ThumbRemoveRaises ==
    /\ InThumbLoop
    /\ info.thumbs[thumb_i].url
    /\ files' = Append(files, ThumbFile(thumb_i))
    /\ calls' = calls \o <<Call("download_file", ThumbFile(thumb_i), TRUE),
                           Call("upload", ThumbFile(thumb_i), TRUE),
                           Call("remove", ThumbFile(thumb_i), FALSE)>>
    /\ thumb_i' = thumb_i + 1
    /\ UNCHANGED <<optvars, fsvars, pc, req, final_error, temp_dir, info, download_error, filename,
                   cloud_url, audio_url, response, result>>

\* the thumbnail is downloaded, uploaded and deleted, its record appended
ThumbOk ==
    /\ InThumbLoop
    /\ info.thumbs[thumb_i].url
    /\ calls' = calls \o <<Call("download_file", ThumbFile(thumb_i), TRUE),
                           Call("upload", ThumbFile(thumb_i), TRUE),
                           Call("remove", ThumbFile(thumb_i), TRUE)>>
    /\ response' = [response EXCEPT !.thumbnails =
                       Append(@, [id |-> thumb_i,
                                  image_url |-> Url(ThumbFile(thumb_i))])]
    /\ thumb_i' = thumb_i + 1
    /\ UNCHANGED <<optvars, fsvars, pc, req, final_error, temp_dir, files, info, download_error, filename,
                   cloud_url, audio_url, result>>

\* return response, "/v1/media/download", 200: the with block is left first
Return ==
    /\ pc = "thumbs"
    /\ ~InThumbLoop
    /\ Cleanup
    /\ pc' = "done"
    /\ result' = Triple(response, route, 200)
    /\ UNCHANGED <<optvars, fsvars, req, final_error, info, download_error, filename, cloud_url, audio_url,
                   response, thumb_i, calls>>

\* --------------------------------------------------------- specification
Next ==
    \/ CreateWorkDir
    \/ CreateWorkDirFails
    \/ Prefetch
    \/ PrefetchRaises
    \/ Tier1Returns
    \/ Tier1Raises
    \/ Tier2Returns
    \/ Tier2Raises
    \/ Tier3Exits0
    \/ Tier3Fails
    \/ Tier3Info
    \/ Tier3InfoRaises
    \/ Discover
    \/ UploadOk
    \/ UploadOkRemoveRaises
    \/ UploadRaises
    \/ RetryOk
    \/ RetryOkRemoveRaises
    \/ RetryRaises
    \/ AudioNone
    \/ AudioUploadOk
    \/ AudioUploadRaises
    \/ Respond
    \/ ThumbNoUrl
    \/ ThumbDownloadRaises
    \/ ThumbUploadRaises
    \/ ThumbRemoveRaises
    \/ ThumbOk
    \/ Return

Spec == Init /\ [][Next]_vars

\* --------------------------------------- option building as a state machine
\* the handler's own variables, at rest while the options are built
jobvars ==
    <<pc, req, temp_dir, files, info, download_error, final_error,
      filename, cloud_url, audio_url, response, thumb_i, result, calls>>

InitOptions ==
    /\ data \in RequestData
    /\ ydl_opts = NoOptions
    /\ step = "start"
    /\ handed = NoSelector
    /\ NoJobs
    /\ pc = "options"
    /\ req = [audio_extract |-> data.audio.extract,
              audio_format |-> data.audio.format, thumb_download |-> FALSE]
    /\ temp_dir = "exists"
    /\ files = << >>
    /\ info = NoInfo
    /\ download_error = NoError
    /\ final_error = NoError
    /\ filename = NoFile
    /\ cloud_url = NoUrl
    /\ audio_url = NoUrl
    /\ response = NilPayload
    /\ thumb_i = 1
    /\ result = Running
    /\ calls = << >>

\* the options are built from the request
BuildOptions ==
    /\ step = "start"
    /\ ydl_opts' = BuiltOptions(data)
    /\ step' = "built"
    /\ UNCHANGED <<jobvars, fsvars, data, handed>>

\* the metadata pre-fetch returns and may replace the selector
SelectBestFormats ==
    /\ step = "built"
    /\ \E info_dict \in InfoDicts :
           ydl_opts' = [ydl_opts EXCEPT
                           !.format = FormatAfterPrefetch(data, info_dict, @)]
    /\ step' = "ready"
    /\ UNCHANGED <<jobvars, fsvars, data, handed>>

\* the metadata pre-fetch raises: the first attempt is never made
SelectBestFormatsRaises ==
    /\ step = "built"
    /\ step' = "failed"
    /\ UNCHANGED <<jobvars, fsvars, data, ydl_opts, handed>>

\* the first attempt: the engine is created with the options
HandToEngine ==
    /\ step = "ready"
    /\ handed' = ydl_opts.format
    /\ step' = "handed"
    /\ UNCHANGED <<jobvars, fsvars, data, ydl_opts>>

NextOptions ==
    \/ BuildOptions
    \/ SelectBestFormats
    \/ SelectBestFormatsRaises
    \/ HandToEngine

SpecOptions == InitOptions /\ [][NextOptions]_vars

\* ------------------------------------------------- jobs running side by side
InitJobs ==
    /\ jpc = [j \in Jobs |-> "start"]
    /\ work_dir = [j \in Jobs |-> "none"]
    /\ dirs = {}
    /\ disk = {}
    /\ touched = {}
    /\ data = NoData
    /\ ydl_opts = NoOptions
    /\ step = "off"
    /\ handed = NoSelector
    /\ pc = "jobs"
    /\ req = [audio_extract |-> FALSE, audio_format |-> "mp3", thumb_download |-> FALSE]
    /\ temp_dir = "absent"
    /\ files = << >>
    /\ info = NoInfo
    /\ download_error = NoError
    /\ final_error = NoError
    /\ filename = NoFile
    /\ cloud_url = NoUrl
    /\ audio_url = NoUrl
    /\ response = NilPayload
    /\ thumb_i = 1
    /\ result = Running
    /\ calls = << >>

\* a step of job j accesses a file of directory d; foreign tells whether d
\* is at that moment the directory of another running job
Touch(j, d) ==
    [job |-> j, dir |-> d,
     foreign |-> \E k \in Jobs \ {j} : jpc[k] = "open" /\ work_dir[k] = d]

\* variant: the directory has a name that may already exist
OpenWorkDirAnyName(j) ==
    /\ jpc[j] = "start"
    /\ \E d \in DirNames :
           /\ work_dir' = [work_dir EXCEPT ![j] = d]
           /\ dirs' = dirs \cup {d}
    /\ jpc' = [jpc EXCEPT ![j] = "open"]
    /\ UNCHANGED <<jobvars, optvars, disk, touched>>

\* tempfile.TemporaryDirectory(): a directory that did not exist is created
OpenWorkDir(j) ==
    /\ jpc[j] = "start"
    /\ \E d \in DirNames \ dirs :
           /\ work_dir' = [work_dir EXCEPT ![j] = d]
           /\ dirs' = dirs \cup {d}
    /\ jpc' = [jpc EXCEPT ![j] = "open"]
    /\ UNCHANGED <<jobvars, optvars, disk, touched>>

\* an attempt, or the thumbnail download, writes a file: every path is
\* os.path.join(temp_dir, ...) or is created by download_file in temp_dir
WriteFile(j) ==
    /\ jpc[j] = "open"
    /\ \E name \in FileNames :
           disk' = disk \cup {<<work_dir[j], name>>}
    /\ touched' = touched \cup {Touch(j, work_dir[j])}
    /\ UNCHANGED <<jobvars, optvars, jpc, work_dir, dirs>>

\* os.listdir(temp_dir), os.path.exists and os.path.getsize of its paths
ListDir(j) ==
    /\ jpc[j] = "open"
    /\ touched' = touched \cup {Touch(j, work_dir[j])}
    /\ UNCHANGED <<jobvars, optvars, jpc, work_dir, dirs, disk>>

\* os.remove of an uploaded file of the directory
RemovePath(j) ==
    /\ jpc[j] = "open"
    /\ \E p \in disk :
           /\ p[1] = work_dir[j]
           /\ disk' = disk \ {p}
    /\ touched' = touched \cup {Touch(j, work_dir[j])}
    /\ UNCHANGED <<jobvars, optvars, jpc, work_dir, dirs>>

\* the with block is left: the directory and what it holds are removed
CloseWorkDir(j) ==
    /\ jpc[j] = "open"
    /\ dirs' = dirs \ {work_dir[j]}
    /\ disk' = { p \in disk : p[1] # work_dir[j] }
    /\ touched' = touched \cup {Touch(j, work_dir[j])}
    /\ jpc' = [jpc EXCEPT ![j] = "closed"]
    /\ UNCHANGED <<jobvars, optvars, work_dir>>

NextJobs ==
    \E j \in Jobs :
        \/ OpenWorkDir(j)
        \/ WriteFile(j)
        \/ ListDir(j)
        \/ RemovePath(j)
        \/ CloseWorkDir(j)

SpecJobs == InitJobs /\ [][NextJobs]_vars

\* ================================================================ claims
Done == pc = "done"

CallIndices == 1..Len(calls)

\* the upload calls made for the file named as f
UploadCalls(f) ==
    { i \in CallIndices : calls[i].op = "upload" /\ SameName(calls[i].file, f) }

\* a non-empty media file that is not a partial download
IsUsableMedia(f) ==
    f.ext \in media_extensions /\ f.size > 0 /\ ~IsPartial(f)

\* text carries the error text e as a run of consecutive fragments
Carries(text, e) ==
    \E k \in 0..(Len(text) - Len(e)) : SubSeq(text, k + 1, k + Len(e)) = e

\* C1: every exit of the handler returns a triple (payload, route, status),
\* status 200 with a response record or status 500 with an error message.
\* Refuted: a first or second attempt that leaves files ends the try block,
\* and the handler returns None.
C1_TripleOnEveryExit ==
    Done =>
        /\ result.kind = "triple"
        /\ result.route = route
        /\ \/ result.status = 200 /\ result.payload.type = "record"
           \/ result.status = 500 /\ result.payload.type = "error"

\* C2: a job whose first or second attempt succeeded and left a usable media
\* file goes on to upload the main artifact, and returns 200 unless an upload
\* or a deletion failed.
TierLeftMedia(c) ==
    /\ c.op \in {"tier1", "tier2"}
    /\ c.ok
    /\ \E k \in 1..Len(c.listing) : IsUsableMedia(c.listing[k])

C2_TierSuccessReachesUpload ==
    (Done /\ \E i \in CallIndices : TierLeftMedia(calls[i])) =>
        /\ \E j \in CallIndices : calls[j].op = "upload"
        /\ \/ result.status = 200
           \/ \E j \in CallIndices :
                calls[j].op \in {"upload", "remove"} /\ ~calls[j].ok

\* C3: the third attempt starts only in a job whose second attempt has run
\* and failed (raised, or left the directory empty).
Tier2Failed(c) == c.op = "tier2" /\ (~c.ok \/ c.listing = << >>)

C3_Tier3OnlyAfterTier2 ==
    (pc \in {"tier3", "tier3info"} \/ \E i \in CallIndices : calls[i].op = "tier3")
        => \E j \in CallIndices : Tier2Failed(calls[j])

\* the last attempt has failed, every attempt before it has failed
AllAttemptsFailed == Done /\ final_error # NoError

NoUploads == \A i \in CallIndices : calls[i].op # "upload"

\* the text of both errors holds the conversion signature and not the
\* missing-file signature
ConversionOnly ==
    /\ Contains(download_error \o final_error, ConversionFailed)
    /\ ~Contains(download_error \o final_error, NoSuchFile)

\* C4 as stated: when every attempt failed the job returns 500 with a message
\* that carries the last error and the initial error, and nothing is uploaded.
C4_MessageCarriesBothErrors ==
    AllAttemptsFailed =>
        /\ result.status = 500
        /\ Carries(result.payload.msg, final_error)
        /\ Carries(result.payload.msg, download_error)
        /\ NoUploads

\* C4 amended: when every attempt failed the job returns 500 and nothing is
\* uploaded; the message carries the last error and the initial error, unless
\* the error text holds "Conversion failed" and not "No such file or
\* directory", and then the message is the fixed conversion-failure text.
C4_MessageCarriesErrorsUnlessConversion ==
    AllAttemptsFailed =>
        /\ result.kind = "triple"
        /\ result.status = 500
        /\ result.payload.type = "error"
        /\ NoUploads
        /\ IF ConversionOnly
           THEN result.payload.msg = <<"Media conversion failed.">>
           ELSE /\ Carries(result.payload.msg, final_error)
                /\ Carries(result.payload.msg, download_error)

C4_Witness ==
    /\ AllAttemptsFailed
    /\ download_error = <<"HTTP Error 403">>
    /\ final_error = <<"Direct download command failed: ", NoSuchFile>>
    /\ Carries(result.payload.msg, download_error)
    /\ Carries(result.payload.msg, final_error)

\* C5: a job fails on an error raised by the extraction engine only when that
\* error is raised by the third attempt.
EngineOps == {"prefetch", "tier1", "tier2", "tier3", "tier3info"}

C5_EngineErrorSurfacesOnlyFromTier3 ==
    (/\ Done
     /\ result.status = 500
     /\ calls # << >>
     /\ calls[Len(calls)].op \in EngineOps
     /\ ~calls[Len(calls)].ok)
        => calls[Len(calls)].op \in {"tier3", "tier3info"}

\* C6: when the third attempt's process exits with status 0 and leaves one
\* usable media file, the file is uploaded and the job returns 200 unless an
\* upload or a deletion fails, whether or not the engine supplies metadata.
Tier3LeftOneFile(c) ==
    /\ c.op = "tier3"
    /\ c.ok
    /\ Len(c.listing) = 1
    /\ IsUsableMedia(c.listing[1])

C6_Tier3FileUploadedWithoutMetadata ==
    (/\ Done
     /\ \E i \in CallIndices : Tier3LeftOneFile(calls[i])
     /\ \A i \in CallIndices :
            calls[i].op \in {"upload", "remove"} => calls[i].ok)
        => /\ result.status = 200
           /\ \E j \in CallIndices : calls[j].op = "upload" /\ calls[j].ok

\* C7: when the handler has returned, on any path, the temporary directory
\* of the job and the files in it are gone.
C7_WorkDirRemovedOnExit ==
    Done => temp_dir # "exists" /\ files = << >>

C7_Witness ==
    /\ Done
    /\ temp_dir = "removed"
    /\ result.status = 500
    /\ \E i \in CallIndices : calls[i].op = "upload" /\ ~calls[i].ok

\* C8: upload_file is called at most twice for any one file (main file,
\* audio file or thumbnail).
C8_AtMostTwoUploads ==
    \A i \in CallIndices :
        calls[i].op = "upload" => Cardinality(UploadCalls(calls[i].file)) <= 2

C8_Witness ==
    \E i \in CallIndices :
        calls[i].op = "upload" /\ Cardinality(UploadCalls(calls[i].file)) = 2

\* C9: for the main file and for the audio file, a first upload call that
\* failed is followed by one more upload call for the same file.
IsFirstUploadOf(i) ==
    /\ calls[i].op = "upload"
    /\ \A j \in 1..(i - 1) : j \notin UploadCalls(calls[i].file)

C9_FailedUploadRetriedOnce ==
    Done =>
        \A i \in CallIndices :
            (IsFirstUploadOf(i) /\ ~calls[i].ok /\ calls[i].file.ext # "jpg")
                => Cardinality(UploadCalls(calls[i].file)) = 2

\* C10: when both upload calls for the main file failed the job returns 500
\* with an error message and no response record; every status returned is
\* 200 or 500.
MainUploadFailedTwice ==
    /\ filename # NoFile
    /\ Cardinality({ i \in UploadCalls(filename) : ~calls[i].ok }) = 2

C10_MainUploadFailureFailsJob ==
    /\ (Done /\ MainUploadFailedTwice) =>
           /\ result.kind = "triple"
           /\ result.status = 500
           /\ result.payload.type = "error"
           /\ result.payload.media_url = NoUrl
    /\ result.kind = "triple" => result.status \in {200, 500}

C10_Witness == Done /\ MainUploadFailedTwice

\* an upload call for the file named as f has returned
UploadedOk(f) == \E j \in UploadCalls(f) : calls[j].ok

\* the upload call for the audio file raised
AudioUploadFailed ==
    \E i \in CallIndices :
        /\ calls[i].op = "upload"
        /\ ~calls[i].ok
        /\ calls[i].file.ext # "jpg"
        /\ ~SameName(calls[i].file, filename)

\* C11: when the main file was uploaded and the upload of the audio file
\* failed, the job returns 200 with the media block and no audio block.
C11_AudioFailureKeepsJob ==
    (Done /\ UploadedOk(filename) /\ AudioUploadFailed) =>
        /\ result.kind = "triple"
        /\ result.status = 200
        /\ result.payload.type = "record"
        /\ result.payload.media_url = Url(filename)
        /\ ~result.payload.has_audio

C11_Witness == Done /\ UploadedOk(filename) /\ AudioUploadFailed

\* the handler is between the selection of the main file and its return
PostDiscovery == pc \in {"upload", "retry", "audio", "respond", "thumbs"}

\* f is no longer in the directory
Deleted(f) == ~Exists(files, f.stem, f.ext)

\* C12: before the directory is removed, a file (of the last attempt, or a
\* downloaded thumbnail) is gone from the directory only if an upload call
\* for it has returned; a file whose upload failed stays; every os.remove
\* follows a returned upload of the same file.
C12_DeletedOnlyAfterUpload ==
    /\ PostDiscovery =>
        \A i \in CallIndices :
            /\ calls[i].op = "tier3" =>
                   \A k \in 1..Len(calls[i].listing) :
                       Deleted(calls[i].listing[k])
                           => UploadedOk(calls[i].listing[k])
            /\ (calls[i].op = "download_file" /\ calls[i].ok) =>
                   (Deleted(calls[i].file) => UploadedOk(calls[i].file))
    /\ \A i \in CallIndices :
           calls[i].op = "remove" =>
               \E j \in 1..(i - 1) :
                   /\ calls[j].op = "upload"
                   /\ calls[j].ok
                   /\ SameName(calls[j].file, calls[i].file)

C12_Witness ==
    /\ PostDiscovery
    /\ UploadedOk(filename)
    /\ Deleted(filename)
    /\ \E i \in CallIndices :
           /\ calls[i].op = "upload"
           /\ ~UploadedOk(calls[i].file)
           /\ ~Deleted(calls[i].file)

\* a call for the k-th thumbnail raised
ThumbFailed(k) ==
    \E i \in CallIndices : calls[i].file = ThumbFile(k) /\ ~calls[i].ok

\* C13: a download, upload or deletion of a thumbnail that fails does not
\* fail the job: the loop goes on through every thumbnail and the job
\* returns 200.
C13_ThumbnailFailureSkipped ==
    (Done /\ \E k \in 1..Len(ThumbNames) : ThumbFailed(k)) =>
        /\ result.status = 200
        /\ result.payload.type = "record"
        /\ thumb_i = Len(info.thumbs) + 1
        /\ \A k \in 1..Len(info.thumbs) :
               info.thumbs[k].url =>
                   \E i \in CallIndices :
                       calls[i].op = "download_file" /\ calls[i].file = ThumbFile(k)

C13_Witness ==
    /\ Done
    /\ ThumbFailed(1)
    /\ result.status = 200
    /\ \E n \in 1..Len(result.payload.thumbnails) :
           result.payload.thumbnails[n].id = 2

\* C14: a 200 response holds a thumbnails array only if the array holds at
\* least one record.
C14_NoEmptyThumbnailsArray ==
    (Done /\ result.status = 200 /\ result.payload.has_thumbnails)
        => result.payload.thumbnails # << >>

\* a listing without any video or audio candidate: metadata files only
NoCandidates(d) ==
    \A k \in 1..Len(d) :
        IsSidecar(d[k]) \/ d[k].ext \notin (media_extensions \cup {"part"})

\* C18: when the last attempt reports success and the directory holds no
\* file, or no video or audio candidate, the job returns 500, nothing is
\* uploaded and the directory is removed.
C18_NoCandidateFailsJob ==
    (/\ Done
     /\ \E i \in CallIndices :
            calls[i].op = "tier3" /\ calls[i].ok /\ NoCandidates(calls[i].listing))
        => /\ result.status = 500
           /\ NoUploads
           /\ temp_dir # "exists"

\* the listing holds a non-empty audio file, and none in the format fmt
OnlyOtherAudio(d, fmt) ==
    /\ \E k \in 1..Len(d) :
           d[k].ext \in {"mp3", "m4a", "wav"} /\ d[k].ext # fmt /\ d[k].size > 0
    /\ \A k \in 1..Len(d) : d[k].ext # fmt

\* C19: when audio extraction is requested in a format and the directory
\* holds audio files in other formats only, a 200 response without a failed
\* upload or deletion has an audio block in the requested format, for an
\* uploaded file of that format.
C19_AudioTranscodedToRequestedFormat ==
    (/\ Done
     /\ result.status = 200
     /\ req.audio_extract
     /\ \E i \in CallIndices :
            /\ calls[i].op = "tier3"
            /\ calls[i].ok
            /\ OnlyOtherAudio(calls[i].listing, req.audio_format)
     /\ \A i \in CallIndices :
            calls[i].op \in {"upload", "remove"} => calls[i].ok)
        => /\ result.payload.has_audio
           /\ result.payload.audio_format = req.audio_format
           /\ \E j \in CallIndices :
                  /\ calls[j].op = "upload"
                  /\ calls[j].ok
                  /\ calls[j].file.ext = req.audio_format

\* C20: an audio block in the response is that of an uploaded file whose
\* extension is the requested audio format, and its format field is that
\* extension.
C20_AudioBlockMatchesFile ==
    \A r \in {response, result.payload} :
        r.has_audio =>
            \E i \in CallIndices :
                /\ calls[i].op = "upload"
                /\ calls[i].ok
                /\ Url(calls[i].file) = r.audio_url
                /\ calls[i].file.ext = req.audio_format
                /\ r.audio_format = calls[i].file.ext

C20_Witness == Done /\ result.status = 200 /\ result.payload.has_audio

\* the first attempt has been handed its options
Handed == step = "handed"

\* C15: when format.quality is a non-empty string, the selector handed to
\* the engine by the first attempt is that string.
C15_QualityHandedVerbatim ==
    (Handed /\ data.format.quality # << >>) => handed = data.format.quality

\* C16: when audio extraction is requested and no format object is given,
\* the selector handed to the engine is the audio-only selector, for any URL.
C16_AudioOnlySelectorForAnyUrl ==
    (Handed /\ data.audio.extract /\ ~data.format.given)
        => handed = bestaudio_format

\* C17: for the URL with a fixed selector, the selector handed to the engine
\* by the first attempt is the fixed selector.
C17_KnownUrlGetsFixedSelector ==
    (Handed /\ data.media_url = known_url) => handed = known_working_format

\* the last attempt left one file only, an audio file in the format fmt
OnlyRequestedAudio(d, fmt) ==
    Len(d) = 1 /\ d[1].ext = fmt /\ d[1].ext \in {"mp3", "m4a", "wav"} /\ d[1].size > 0

\* C21: when audio extraction is requested and the only file produced is an
\* audio file in the requested format, the 200 response has an audio block
\* for it next to the non-empty media block.
C21_AudioOnlyJobHasAudioBlock ==
    (/\ Done
     /\ result.status = 200
     /\ req.audio_extract
     /\ \E i \in CallIndices :
            /\ calls[i].op = "tier3"
            /\ calls[i].ok
            /\ OnlyRequestedAudio(calls[i].listing, req.audio_format))
        => /\ result.payload.media_url # NoUrl
           /\ result.payload.has_audio
           /\ result.payload.audio_format = req.audio_format

\* C22: every 200 response has a media block whose URL is the one returned
\* by an upload of the main file, and once an upload of the main file has
\* returned the job does not end as a failure.
C22_UploadedMainMeansSuccess ==
    /\ (Done /\ result.status = 200) =>
           /\ result.payload.type = "record"
           /\ result.payload.media_url # NoUrl
           /\ \E j \in UploadCalls(filename) :
                  calls[j].ok /\ Url(calls[j].file) = result.payload.media_url
    /\ (Done /\ filename # NoFile /\ UploadedOk(filename)) => result.status = 200

\* C23: two jobs that run at the same time have distinct directories, and
\* no step of a job accesses a file of the directory of the other job.
C23_WorkDirsIsolated ==
    /\ \A j, k \in Jobs :
           (j # k /\ jpc[j] = "open" /\ jpc[k] = "open")
               => work_dir[j] # work_dir[k]
    /\ \A t \in touched : ~t.foreign /\ t.dir = work_dir[t.job]
    /\ \A p \in disk : \E j \in Jobs : jpc[j] = "open" /\ work_dir[j] = p[1]

C23_Witness ==
    /\ \A j \in Jobs : jpc[j] = "open"
    /\ \A j \in Jobs : \E p \in disk : p[1] = work_dir[j]
    /\ \A j \in Jobs : \E t \in touched : t.job = j

\* the file of the listings taken to be a video stream without audio, as an
\* unmerged download leaves next to its audio stream
VideoOnlyStream(f) == f.stem = "vid" /\ f.ext = "webm"

\* the last attempt left an audio file in the directory
AudioCandidateListed ==
    \E i \in CallIndices :
        /\ calls[i].op = "tier3"
        /\ \E k \in 1..Len(calls[i].listing) :
               /\ calls[i].listing[k].ext \in {"mp3", "m4a", "wav"}
               /\ calls[i].listing[k].size > 0

\* C24: when the selected video file carries no audio stream and an audio
\* file exists in the directory, the video-only file is never passed to the
\* upload as the main file.
C24_VideoOnlyFileNeverUploaded ==
    (VideoOnlyStream(filename) /\ AudioCandidateListed)
        => UploadCalls(filename) = {}

\* the calls of one of the three attempts
TierCalls(op) == { i \in CallIndices : calls[i].op = op }

\* C25: within a job the engine call of the first attempt, the fallback
\* engine call and the yt-dlp process are each made at most once.
C25_EachTierAtMostOnce ==
    \A op \in {"tier1", "tier2", "tier3"} : Cardinality(TierCalls(op)) <= 1

C25_Witness ==
    Done /\ \A op \in {"tier1", "tier2", "tier3"} : Cardinality(TierCalls(op)) = 1

\* C26: for any listing, discovery never selects a metadata sidecar (a name
\* ending in .info.json or .description) as the main file.
C26_SidecarNeverSelected == filename # NoFile => ~IsSidecar(filename)

\* the indices of the video candidates of a listing: non-empty files with a
\* video container that are not partial downloads
VideoCandidates(d) ==
    { k \in 1..Len(d) :
        /\ d[k].ext \in {"mp4", "mkv", "webm", "avi", "mov", "flv"}
        /\ d[k].size > 0
        /\ ~IsPartial(d[k]) }

\* C27: when the listing holds several video candidates, the main file is an
\* mp4 candidate if there is one, whatever the names and the order of the
\* listing, and the first video candidate of the listing otherwise.
C27_Mp4CandidatePreferred ==
    \A i \in CallIndices :
        (/\ calls[i].op = "tier3"
         /\ calls[i].ok
         /\ filename # NoFile
         /\ Cardinality(VideoCandidates(calls[i].listing)) >= 2)
            => LET d == calls[i].listing
                   mp4 == { k \in VideoCandidates(d) : d[k].ext = "mp4" }
               IN  IF mp4 # {}
                   THEN \E k \in mp4 : SameName(filename, d[k])
                   ELSE SameName(filename, d[FirstIndex(VideoCandidates(d))])

\* C28: a selected main file of size zero is never passed to the upload,
\* on the first call or the second, and the job ends with status 500.
C28_ZeroSizeNeverUploaded ==
    /\ \A i \in CallIndices :
           (calls[i].op = "upload" /\ SameName(calls[i].file, filename))
               => calls[i].file.size > 0
    /\ (filename # NoFile /\ filename.size = 0) =>
           /\ UploadCalls(filename) = {}
           /\ Done
           /\ result.kind = "triple"
           /\ result.status = 500

C28_Witness == Done /\ filename # NoFile /\ filename.size = 0

\* the call is part of the secondary work: an upload of a file other than
\* the main file, or the download or upload of a thumbnail
SecondaryCall(i) ==
    \/ calls[i].op = "upload" /\ ~SameName(calls[i].file, filename)
    \/ calls[i].op = "download_file"

\* C29: no upload of the audio file and no download or upload of a
\* thumbnail is made before an upload of the main file has returned.
C29_MainSecuredFirst ==
    \A i \in CallIndices :
        SecondaryCall(i) =>
            \E j \in 1..(i - 1) :
                /\ calls[j].op = "upload"
                /\ calls[j].ok
                /\ SameName(calls[j].file, filename)

C29_Witness ==
    /\ Done
    /\ \E i \in CallIndices :
           SecondaryCall(i) /\ calls[i].op = "upload" /\ calls[i].file.ext # "jpg"
    /\ \E i \in CallIndices : calls[i].op = "download_file"

\* the audio-extraction directives of the options
ExtractDirectives ==
    { i \in 1..Len(ydl_opts.postprocessors) :
        ydl_opts.postprocessors[i].key = "FFmpegExtractAudio" }

\* C30: when audio extraction is requested, the options handed to the engine
\* by the first attempt hold exactly one audio-extraction directive, with
\* the requested format and quality.
C30_OneExtractDirective ==
    (Handed /\ data.audio.extract) =>
        /\ Cardinality(ExtractDirectives) = 1
        /\ \A i \in ExtractDirectives :
               /\ ydl_opts.postprocessors[i].preferredcodec = data.audio.format
               /\ ydl_opts.postprocessors[i].preferredquality = data.audio.quality

\* C31: the subtitle settings handed to the engine come from the subtitles
\* object only: subtitle download is enabled and subtitle languages are set
\* only when the subtitles object asks for it, whatever the thumbnails object.
C31_SubtitleSettingsFromSubtitlesOnly ==
    Handed =>
        /\ ydl_opts.writesubtitles = (data.subtitles.given /\ data.subtitles.download)
        /\ ydl_opts.writeallsubtitles => (data.subtitles.given /\ data.subtitles.download)
        /\ ydl_opts.subtitleslangs =
               (IF data.subtitles.given THEN data.subtitles.languages ELSE << >>)

\* C32: a second upload call for the main file is made only if the first
\* upload call failed; a file whose upload has returned is not uploaded again.
C32_NoUploadAfterReturnedUpload ==
    \A i, j \in UploadCalls(filename) : i < j => ~calls[i].ok

====
